---- MODULE Spec2Model ----
(***************************************************************************)
(* gojsonclient: a Client for JSON/REST HTTP services with retry/backoff.   *)
(*                                                                         *)
(* The model follows one call of Do (client.go) on an immutable Client and  *)
(* Request: the attempt function handed to the backoff (build the HTTP      *)
(* request, transmit, interpret the response, cancellation check, retry     *)
(* function), the backoff's attempt loop, and Do's return.  The server, the *)
(* codec, the middlewares, a caller-supplied retry function and the         *)
(* caller's context are the environment: their outcomes are chosen with \E. *)
(*                                                                         *)
(* Spec is that single call.  ConcSpec runs several calls of Do on one      *)
(* Client and Request, and NewSpec is the construction of a Client from     *)
(* option constructors that may panic.                                      *)
(***************************************************************************)
EXTENDS Integers, Sequences, FiniteSets, TLC

(* ------------------------------ bounds --------------------------------- *)
\* largest value handed to WithMaxAttempts
MaxAttemptsOpt == 2
\* number of distinct middleware functions that may be registered
NumMiddlewares == 2
\* longest option list handed to New
MaxOpts == 2

(* ------------------------- program constants --------------------------- *)
DefaultMaxAttempts == 5
StatusOK == 200
StatusNoContent == 204
StatusFound == 302
StatusBadRequest == 400
StatusInternalServerError == 500

\* nil of any pointer, interface or error type
Nil == [nil |-> TRUE]

\* status codes the server answers with
Statuses == {StatusOK, StatusNoContent, StatusBadRequest, StatusInternalServerError}

\* http.Response.Status of a status code
StatusText(code) ==
    CASE code = StatusOK -> "200 OK"
      [] code = StatusNoContent -> "204 No Content"
      [] code = StatusFound -> "302 Found"
      [] code = StatusBadRequest -> "400 Bad Request"
      [] code = StatusInternalServerError -> "500 Internal Server Error"

(* ------------------------------ errors --------------------------------- *)
\* An error is a message (the outermost fmt.Errorf prefix) and the sentinel
\* found at the bottom of its %w chain.
Causes == {"Canceled", "DeadlineExceeded", "Other"}

NewError(msg, cause) == [kind |-> "error", msg |-> msg, cause |-> cause]

\* fmt.Errorf(msg + ": %w", err): the chain, and so the cause, is kept
Wrap(msg, err) == [kind |-> "error", msg |-> msg, cause |-> err.cause]

\* variant: every context error counts, context.DeadlineExceeded too
IsCanceled_AnyContextError(err) == err # Nil /\ err.cause \in {"Canceled", "DeadlineExceeded"}

\* errors.Is(err, context.Canceled)
IsCanceled(err) == err # Nil /\ err.cause = "Canceled"

\* httpError(status)
httpError(status) == [kind |-> "httpError", msg |-> status, cause |-> "Other"]

\* errors a caller-supplied retry function may return
RetryErrs == {NewError("HTTP error", "Other"), NewError("give up", "Other")}

AbortError(e) == [kind |-> "AbortError", Err |-> e]
MaxAttemptsError(e) == [kind |-> "MaxAttemptsError", Err |-> e]
IsAbortError(e) == e # Nil /\ e.kind = "AbortError"
IsMaxAttemptsError(e) == e # Nil /\ e.kind = "MaxAttemptsError"

\* ctx.Err() of a cancelled context
ContextCanceled == NewError("context canceled", "Canceled")

(* ------------------------------ Client --------------------------------- *)
\* retry functions handed to WithRetry: one that always returns nil
\* (client_test.go TestDo_RetryFunc) and an arbitrary caller function
RetryFuncs == {"alwaysNil", "custom"}

\* a nil RetryFunc
NilFunc == "nil"

\* panic(msg): the call does not return
Panic(msg) == [panic |-> msg]
IsPanic(v) == "panic" \in DOMAIN v

\* variant: any max is accepted
WithMaxAttempts_NoCheck(max) == [opt |-> "WithMaxAttempts", max |-> max]

\* variant: any retry function is accepted
WithRetry_NoCheck(retry) == [opt |-> "WithRetry", retry |-> retry]

WithMaxAttempts(max) ==
    IF max < 1
    THEN Panic("max must be >=1")
    ELSE [opt |-> "WithMaxAttempts", max |-> max]

WithRetry(retry) ==
    IF retry = NilFunc
    THEN Panic("retry must not be nil")
    ELSE [opt |-> "WithRetry", retry |-> retry]

WithRequestMiddleware(fun) == [opt |-> "WithRequestMiddleware", fun |-> fun]

ClientOpts ==
    {WithMaxAttempts(n) : n \in 1..MaxAttemptsOpt}
    \cup {WithRetry(f) : f \in RetryFuncs}
    \cup {WithRequestMiddleware(m) : m \in 1..NumMiddlewares}

ApplyOpt(client, o) ==
    CASE o.opt = "WithMaxAttempts" -> [client EXCEPT !.maxAttempts = o.max]
      [] o.opt = "WithRetry" -> [client EXCEPT !.retryFunc = o.retry]
      [] o.opt = "WithRequestMiddleware" ->
            [client EXCEPT !.requestMiddlewares = Append(@, o.fun)]

RECURSIVE ApplyOpts(_, _)
ApplyOpts(client, opts) ==
    IF opts = <<>> THEN client
    ELSE ApplyOpts(ApplyOpt(client, Head(opts)), Tail(opts))

New(opts) ==
    ApplyOpts([maxAttempts |-> DefaultMaxAttempts,
               retryFunc |-> "default",
               requestMiddlewares |-> <<>>], opts)

OptLists == UNION {[1..n -> ClientOpts] : n \in 0..MaxOpts}

(* ------------------------------ Request -------------------------------- *)
\* dynamic type of the request data and static type of the response data
TypeKinds == {"Void", "PtrVoid", "Data"}

\* methods handed to NewRequest: it validates nothing, and an invalid method
\* makes http.NewRequestWithContext fail in every attempt
Methods == {"GET", "bad method"}
ValidMethod(method) == method = "GET"

\* src/ holds two revisions of the package: client.go, where the Void type
\* marks "no data", and the one quoted in README.md, where nil request data
\* and the ignoreResponseBody flag do.  A Request belongs to one of them.

\* request data of the client.go revision: a nil interface value, or a value
\* of one of the TypeKinds
ReqKinds == {"nil"} \cup TypeKinds

NewRequest(method, req, resType) ==
    [rev |-> "client.go", method |-> method, req |-> req, resType |-> resType]

\* request data of the README.md revision, which has no Void type
ReqKinds_README == {"nil", "Data"}

WithIgnoreResponseBody == [opt |-> "ignoreResponseBody"]
RequestOptLists == {<<>>, <<WithIgnoreResponseBody>>}

NewRequest_README(method, req, opts) ==
    [rev |-> "README.md", method |-> method, req |-> req,
     ignoreResponseBody |-> \E i \in 1..Len(opts) : opts[i] = WithIgnoreResponseBody]


(* ------------------------- pure parts of the code ---------------------- *)
\* variant: aborts on every client or server error status
DefaultRetryFunc_AbortsFrom400(httpRes, err) ==
    IF httpRes # Nil /\ httpRes.StatusCode >= StatusBadRequest
    THEN httpError(httpRes.Status)
    ELSE Nil

\* variant: aborts on every failed attempt as well
DefaultRetryFunc_AbortsOnErr(httpRes, err) ==
    IF httpRes # Nil /\ httpRes.StatusCode = StatusBadRequest
    THEN httpError(httpRes.Status)
    ELSE IF err # Nil THEN httpError("attempt failed") ELSE Nil

\* the retry function New installs by default
DefaultRetryFunc(httpRes, err) ==
    IF httpRes # Nil /\ httpRes.StatusCode = StatusBadRequest
    THEN httpError(httpRes.Status)
    ELSE Nil

\* variant: the retry function is handed a nil error
RetryArgs_NilErr(httpRes, err) == [httpRes |-> httpRes, err |-> Nil]

\* variant: the retry function is handed a nil response
RetryArgs_NilHttpRes(httpRes, err) == [httpRes |-> Nil, err |-> err]

\* the arguments of client.retryFunc(ctx, httpRes, err)
RetryArgs(httpRes, err) == [httpRes |-> httpRes, err |-> err]

\* the values a retry function may return for (httpRes, err)
RetryDecisions(retryFunc, httpRes, err) ==
    CASE retryFunc = "default" -> {DefaultRetryFunc(httpRes, err)}
      [] retryFunc = "alwaysNil" -> {Nil}
      [] retryFunc = "custom" -> {Nil} \cup RetryErrs

\* the headers newHTTPRequest sets before it runs the middlewares
DefaultHeader == {"Content-Type", "Accept"}

\* the middleware loop: middlewares 1..n of mws were invoked in this order,
\* each on a request carrying header, and the one at errAt (0: none)
\* returned an error
Invoked(mws, n, errAt, header) ==
    [i \in 1..n |-> [fun |-> mws[i], header |-> header,
                     err |-> IF i = errAt THEN NewError("middleware", "Other") ELSE Nil]]

\* variant: the error of a middleware does not end the loop; the request is
\* built all the same
newHTTPRequest_MiddlewareErrorPassedOver(client, request, marshalErr, mwErrAt) ==
    LET marshal == request.req \notin {"Void", "PtrVoid"}
        body == IF marshal THEN "buffer" ELSE "NoBody"
        mws == client.requestMiddlewares
    IN  IF marshal /\ marshalErr # Nil
        THEN [httpReq |-> Nil, err |-> Wrap("encode request body", marshalErr),
              marshalled |-> TRUE, applied |-> <<>>]
        ELSE IF ~ValidMethod(request.method)
        THEN [httpReq |-> Nil, err |-> NewError("new HTTP request", "Other"),
              marshalled |-> marshal, applied |-> <<>>]
        ELSE [httpReq |-> [method |-> request.method,
                           body |-> body,
                           header |-> DefaultHeader,
                           ctx |-> "attempt"],
              err |-> Nil, marshalled |-> marshal,
              applied |-> Invoked(mws, Len(mws), mwErrAt, DefaultHeader)]

\* variant: the default headers are set after the middlewares ran
newHTTPRequest_HeadersLast(client, request, marshalErr, mwErrAt) ==
    LET marshal == request.req \notin {"Void", "PtrVoid"}
        body == IF marshal THEN "buffer" ELSE "NoBody"
        mws == client.requestMiddlewares
    IN  IF marshal /\ marshalErr # Nil
        THEN [httpReq |-> Nil, err |-> Wrap("encode request body", marshalErr),
              marshalled |-> TRUE, applied |-> <<>>]
        ELSE IF ~ValidMethod(request.method)
        THEN [httpReq |-> Nil, err |-> NewError("new HTTP request", "Other"),
              marshalled |-> marshal, applied |-> <<>>]
        ELSE IF mwErrAt # 0
        THEN [httpReq |-> Nil,
              err |-> NewError("request middleware", "Other"),
              marshalled |-> marshal, applied |-> Invoked(mws, mwErrAt, mwErrAt, {})]
        ELSE [httpReq |-> [method |-> request.method,
                           body |-> body,
                           header |-> DefaultHeader,
                           ctx |-> "attempt"],
              err |-> Nil, marshalled |-> marshal,
              applied |-> Invoked(mws, Len(mws), 0, {})]

\* newHTTPRequest: marshalErr is what the marshal function would return,
\* mwErrAt the position of the first middleware that would fail (0: none).
\* The request carries the attempt's context: do() derives the timeout
\* context only after the request is built and hands it to nothing.
\* A Go switch case does not fall through: Void and *Void both skip the
\* default branch, so neither is marshalled.  A nil interface value matches
\* neither case and takes the default branch.
newHTTPRequest(client, request, marshalErr, mwErrAt) ==
    LET marshal == request.req \notin {"Void", "PtrVoid"}
        body == IF marshal THEN "buffer" ELSE "NoBody"
        mws == client.requestMiddlewares
    IN  IF marshal /\ marshalErr # Nil
        THEN [httpReq |-> Nil, err |-> Wrap("encode request body", marshalErr),
              marshalled |-> TRUE, applied |-> <<>>]
        ELSE IF ~ValidMethod(request.method)
        THEN [httpReq |-> Nil, err |-> NewError("new HTTP request", "Other"),
              marshalled |-> marshal, applied |-> <<>>]
        ELSE IF mwErrAt # 0
        THEN [httpReq |-> Nil,
              err |-> NewError("request middleware", "Other"),
              marshalled |-> marshal, applied |-> Invoked(mws, mwErrAt, mwErrAt, DefaultHeader)]
        ELSE [httpReq |-> [method |-> request.method,
                           body |-> body,
                           header |-> DefaultHeader,
                           ctx |-> "attempt"],
              err |-> Nil, marshalled |-> marshal,
              applied |-> Invoked(mws, Len(mws), 0, DefaultHeader)]

\* newHTTPRequest of the README.md revision: the marshal function runs
\* unless the request data is a nil interface value
newHTTPRequest_README(client, request, marshalErr, mwErrAt) ==
    LET marshal == request.req # "nil"
        body == IF marshal THEN "buffer" ELSE "NoBody"
        mws == client.requestMiddlewares
    IN  IF marshal /\ marshalErr # Nil
        THEN [httpReq |-> Nil, err |-> Wrap("encode request body", marshalErr),
              marshalled |-> TRUE, applied |-> <<>>]
        ELSE IF ~ValidMethod(request.method)
        THEN [httpReq |-> Nil, err |-> NewError("new HTTP request", "Other"),
              marshalled |-> marshal, applied |-> <<>>]
        ELSE IF mwErrAt # 0
        THEN [httpReq |-> Nil,
              err |-> NewError("request middleware", "Other"),
              marshalled |-> marshal, applied |-> Invoked(mws, mwErrAt, mwErrAt, DefaultHeader)]
        ELSE [httpReq |-> [method |-> request.method,
                           body |-> body,
                           header |-> DefaultHeader,
                           ctx |-> "attempt"],
              err |-> Nil, marshalled |-> marshal,
              applied |-> Invoked(mws, Len(mws), 0, DefaultHeader)]

Zero == "zero"

NewResponse(payload, httpRes) ==
    [Res |-> payload, StatusCode |-> httpRes.StatusCode, Status |-> httpRes.Status]

\* variant: the type switch comes first, the 204 check is gone
response_NoContentDecoded(httpRes, request, decodeErr) ==
    IF request.resType = "PtrVoid"
    THEN [res |-> NewResponse(Zero, httpRes), err |-> Nil, unmarshalled |-> FALSE]
    ELSE IF decodeErr # Nil
    THEN [res |-> Nil, err |-> Wrap("decode response", decodeErr), unmarshalled |-> TRUE]
    ELSE [res |-> NewResponse(IF request.resType = "Void" THEN Zero ELSE "decoded",
                              httpRes),
          err |-> Nil, unmarshalled |-> TRUE]

\* response: decodeErr is what the unmarshal function would return.
\* In the type switch only the *Void case returns; the Void case is empty
\* and execution continues with the unmarshal function.
response(httpRes, request, decodeErr) ==
    IF httpRes.StatusCode = StatusNoContent
    THEN [res |-> NewResponse(Zero, httpRes), err |-> Nil, unmarshalled |-> FALSE]
    ELSE IF request.resType = "PtrVoid"
    THEN [res |-> NewResponse(Zero, httpRes), err |-> Nil, unmarshalled |-> FALSE]
    ELSE IF decodeErr # Nil
    THEN [res |-> Nil, err |-> Wrap("decode response", decodeErr), unmarshalled |-> TRUE]
    ELSE [res |-> NewResponse(IF request.resType = "Void" THEN Zero ELSE "decoded",
                              httpRes),
          err |-> Nil, unmarshalled |-> TRUE]

\* variant: the ignoreResponseBody flag is not looked at
response_README_IgnoresFlag(httpRes, request, decodeErr) ==
    IF httpRes.StatusCode = StatusNoContent
    THEN [res |-> NewResponse(Zero, httpRes), err |-> Nil, unmarshalled |-> FALSE]
    ELSE IF decodeErr # Nil
    THEN [res |-> Nil, err |-> Wrap("decode response", decodeErr), unmarshalled |-> TRUE]
    ELSE [res |-> NewResponse("decoded", httpRes), err |-> Nil, unmarshalled |-> TRUE]

\* response of the README.md revision: the body is left alone on 204 and
\* when the request's ignoreResponseBody flag is set
response_README(httpRes, request, decodeErr) ==
    IF httpRes.StatusCode = StatusNoContent \/ request.ignoreResponseBody
    THEN [res |-> NewResponse(Zero, httpRes), err |-> Nil, unmarshalled |-> FALSE]
    ELSE IF decodeErr # Nil
    THEN [res |-> Nil, err |-> Wrap("decode response", decodeErr), unmarshalled |-> TRUE]
    ELSE [res |-> NewResponse("decoded", httpRes), err |-> Nil, unmarshalled |-> TRUE]

\* the response httpClient.Do returns without error: its body is open
HTTPResponse(code) ==
    [StatusCode |-> code, Status |-> StatusText(code), bodyOpen |-> TRUE, closes |-> 0]

\* the response httpClient.Do returns next to the error when following a
\* redirect failed: the HTTP client has closed its body
RedirectResponse ==
    [StatusCode |-> StatusFound, Status |-> StatusText(StatusFound), bodyOpen |-> FALSE,
     closes |-> 1]

\* variant: do() does not close the body
CloseBody_Forgotten(httpRes) == httpRes

\* the deferred httpRes.Body.Close() of do()
CloseBody(httpRes) == [httpRes EXCEPT !.bodyOpen = FALSE, !.closes = @ + 1]

\* newHTTPRequest and response of the Request's revision
newHTTPRequestOf(client, request, marshalErr, mwErrAt) ==
    IF request.rev = "client.go"
    THEN newHTTPRequest(client, request, marshalErr, mwErrAt)
    ELSE newHTTPRequest_README(client, request, marshalErr, mwErrAt)

responseOf(httpRes, request, decodeErr) ==
    IF request.rev = "client.go"
    THEN response(httpRes, request, decodeErr)
    ELSE response_README(httpRes, request, decodeErr)

\* do() as a whole.  transmitErr is what httpClient.Do would fail with,
\* answer the status code the server would answer with.
do(client, request, marshalErr, mwErrAt, transmitErr, answer, decodeErr) ==
    LET b == newHTTPRequestOf(client, request, marshalErr, mwErrAt)
        h == CloseBody(HTTPResponse(answer))
        r == responseOf(HTTPResponse(answer), request, decodeErr)
    IN  IF b.err # Nil
        THEN [res |-> Nil, httpRes |-> Nil, err |-> Wrap("new HTTP request", b.err)]
        ELSE IF transmitErr # Nil
        THEN [res |-> Nil, httpRes |-> Nil, err |-> Wrap("execute HTTP request", transmitErr)]
        ELSE IF r.err # Nil
        THEN [res |-> Nil, httpRes |-> h, err |-> Wrap("get response", r.err)]
        ELSE [res |-> r.res, httpRes |-> h, err |-> Nil]

\* variant: a failed attempt is retried without asking the retry function
AttemptFunc_RetriesUnasked(err, wouldReturn) ==
    IF IsCanceled(err)
    THEN [ret |-> AbortError(err), asked |-> FALSE]
    ELSE IF err # Nil
    THEN [ret |-> err, asked |-> FALSE]
    ELSE IF wouldReturn # Nil
    THEN [ret |-> AbortError(wouldReturn), asked |-> TRUE]
    ELSE [ret |-> err, asked |-> TRUE]

\* variant: a nil retry decision makes the function return nil, not err
AttemptFunc_SwallowsErr(err, wouldReturn) ==
    IF IsCanceled(err)
    THEN [ret |-> AbortError(err), asked |-> FALSE]
    ELSE IF wouldReturn # Nil
    THEN [ret |-> AbortError(wouldReturn), asked |-> TRUE]
    ELSE [ret |-> Nil, asked |-> TRUE]

\* variant: a failed attempt aborts even when the retry function answers nil
AttemptFunc_AbortsOnErr(err, wouldReturn) ==
    IF IsCanceled(err)
    THEN [ret |-> AbortError(err), asked |-> FALSE]
    ELSE IF wouldReturn # Nil
    THEN [ret |-> AbortError(wouldReturn), asked |-> TRUE]
    ELSE IF err # Nil
    THEN [ret |-> AbortError(err), asked |-> TRUE]
    ELSE [ret |-> err, asked |-> TRUE]

\* variant: the abort wraps the attempt's error, not the retry function's
AttemptFunc_WrapsAttemptErr(err, wouldReturn) ==
    IF IsCanceled(err)
    THEN [ret |-> AbortError(err), asked |-> FALSE]
    ELSE IF wouldReturn # Nil
    THEN [ret |-> AbortError(err), asked |-> TRUE]
    ELSE [ret |-> err, asked |-> TRUE]

\* variant: no cancellation check before the retry function
AttemptFunc_NoCancelCheck(err, wouldReturn) ==
    IF wouldReturn # Nil
    THEN [ret |-> AbortError(wouldReturn), asked |-> TRUE]
    ELSE [ret |-> err, asked |-> TRUE]

\* variant: the retry function's error is returned as it is, unwrapped
AttemptFunc_PlainRetryErr(err, wouldReturn) ==
    IF IsCanceled(err)
    THEN [ret |-> AbortError(err), asked |-> FALSE]
    ELSE IF wouldReturn # Nil
    THEN [ret |-> wouldReturn, asked |-> TRUE]
    ELSE [ret |-> err, asked |-> TRUE]

\* variant: a retry decision is honoured on failed attempts only
AttemptFunc_AsksOnErrOnly(err, wouldReturn) ==
    IF IsCanceled(err)
    THEN [ret |-> AbortError(err), asked |-> FALSE]
    ELSE IF err # Nil /\ wouldReturn # Nil
    THEN [ret |-> AbortError(wouldReturn), asked |-> TRUE]
    ELSE [ret |-> err, asked |-> err # Nil]

\* The function Do hands to the backoff, from the return of do() on:
\* the cancellation check, then the retry function, whose answer would be
\* wouldReturn.  ret is what the function returns to the backoff, asked
\* whether the retry function was invoked.
AttemptFunc(err, wouldReturn) ==
    IF IsCanceled(err)
    THEN [ret |-> AbortError(err), asked |-> FALSE]
    ELSE IF wouldReturn # Nil
    THEN [ret |-> AbortError(wouldReturn), asked |-> TRUE]
    ELSE [ret |-> err, asked |-> TRUE]

\* variant: res is returned whatever the backoff returned
DoReturn_KeepsRes(res, err) == [res |-> res, err |-> err]

\* variant: the response is dropped on success too
DoReturn_DropsRes(res, err) == [res |-> Nil, err |-> err]

\* variant: Do returns the cause of an abort instead of the abort
DoReturn_UnwrapsAbort(res, err) ==
    IF err # Nil
    THEN [res |-> Nil, err |-> IF IsAbortError(err) THEN err.Err ELSE err]
    ELSE [res |-> res, err |-> Nil]

\* what Do returns once the backoff returned err
DoReturn(res, err) ==
    IF err # Nil THEN [res |-> Nil, err |-> err] ELSE [res |-> res, err |-> Nil]

(* ------------------------- the backoff collaborator -------------------- *)
\* Backoff.Do after the attempt function returned fnErr on attempt n:
\* nil stops with success, an AbortError stops and is propagated, any other
\* error is retried after a delay unless the attempts are used up.
BackoffAfterAttempt(fnErr, n, maxAttempts) ==
    IF fnErr = Nil THEN [stop |-> TRUE, err |-> Nil]
    ELSE IF IsAbortError(fnErr) THEN [stop |-> TRUE, err |-> fnErr]
    ELSE IF n >= maxAttempts THEN [stop |-> TRUE, err |-> MaxAttemptsError(fnErr)]
    ELSE [stop |-> FALSE, err |-> fnErr]

\* Backoff.Do when the context is cancelled during the delay between two
\* attempts: it stops with an abort carrying the cancellation.
BackoffDelayCanceled == AbortError(ContextCanceled)

(* ------------------------------- state --------------------------------- *)
VARIABLES
    client,          \* the Client (read-only once built)
    request,         \* the Request (read-only once built)
    ctxCanceled,     \* the caller's context has been cancelled
    pc,              \* where the Do call is
    attempt,         \* number of the current attempt (0 before the first)
    httpReq,         \* the attempt's *http.Request between build and send
    httpRes,         \* the attempt's *http.Response
    res,             \* Do's variable res, assigned by every attempt
    err,             \* the attempt's error
    log,             \* history: outcome and retry decision of every finished attempt
    firstStatus,     \* history: status code answered in attempt 1 (0: no response)
    retryCalls,      \* history: invocations of the retry function
    marshalled,      \* history: the current attempt invoked the marshal function
    unmarshalled,    \* history: the current attempt invoked the unmarshal function
    mwApplied,       \* history: middlewares invoked in the current attempt
    retryArgs,       \* history: what the current attempt handed to the retry function
    result,          \* what Do returned
    timer,           \* the attempt's timeout context: "off", "running", "fired"
    optCalls,        \* building a Client: the option constructors called so far
    newPc,           \* building a Client: "options", "built" or "panicked"
    calls,           \* concurrent calls of Do: each call's own locals
    resCells         \* concurrent calls of Do: the storage of the variables res

vars == <<client, request, ctxCanceled, pc, attempt, httpReq, httpRes, res, err,
          log, firstStatus, retryCalls, marshalled, unmarshalled, mwApplied, result,
          retryArgs, timer, optCalls, newPc, calls, resCells>>

config == <<client, request>>
concurrent == <<calls, resCells>>
construction == <<optCalls, newPc>>
history == <<firstStatus, retryCalls, marshalled, unmarshalled, mwApplied, retryArgs>>

NotAsked == [notAsked |-> TRUE]

Init ==
    /\ \E opts \in OptLists : client = New(opts)
    /\ \/ \E method \in Methods, req \in ReqKinds, resType \in TypeKinds :
             request = NewRequest(method, req, resType)
       \/ \E method \in Methods, req \in ReqKinds_README, opts \in RequestOptLists :
             request = NewRequest_README(method, req, opts)
    /\ ctxCanceled = FALSE
    /\ pc = "idle"
    /\ attempt = 0
    /\ httpReq = Nil
    /\ httpRes = Nil
    /\ res = Nil
    /\ err = Nil
    /\ log = <<>>
    /\ firstStatus = 0
    /\ retryCalls = 0
    /\ marshalled = FALSE
    /\ unmarshalled = FALSE
    /\ mwApplied = <<>>
    /\ retryArgs = Nil
    /\ result = Nil
    /\ timer = "off"
    /\ optCalls = <<>>
    /\ newPc = "built"
    /\ calls = <<>>
    /\ resCells = <<>>

(* ------------------------------ actions -------------------------------- *)
\* the caller invokes Do: the backoff starts attempt 1
Do ==
    /\ pc = "idle"
    /\ pc' = "build"
    /\ attempt' = 1
    /\ UNCHANGED <<config, concurrent, construction,
                   timer, ctxCanceled, httpReq, httpRes, res, err, log, history, result>>

\* do(): newHTTPRequest; on failure do returns (nil, nil, err)
NewHTTPRequest ==
    /\ pc = "build"
    /\ \E marshalErr \in {Nil, NewError("marshal", "Other")},
          mwErrAt \in 0..Len(client.requestMiddlewares) :
          LET r == newHTTPRequestOf(client, request, marshalErr, mwErrAt)
          IN  /\ marshalled' = r.marshalled
              /\ mwApplied' = r.applied
              /\ IF r.err # Nil
                 THEN /\ res' = Nil
                      /\ httpRes' = Nil
                      /\ err' = Wrap("new HTTP request", r.err)
                      /\ httpReq' = Nil
                      /\ pc' = "decide"
                      /\ timer' = "off"
                 ELSE /\ httpReq' = r.httpReq
                      /\ pc' = "send"
                      /\ timer' = "running"
                      /\ UNCHANGED <<res, httpRes, err>>
    /\ UNCHANGED <<config, concurrent, construction,
                   ctxCanceled, attempt, log, firstStatus, retryCalls, unmarshalled, retryArgs,
                   result>>

\* The attempt's timeout elapses: the context do() derived with
\* context.WithTimeout is done.  A transmission bound to that context ends
\* with its deadline error; one bound to another context goes on.
RequestTimeoutElapses ==
    /\ pc \in {"send", "interpret"}
    /\ timer = "running"
    /\ timer' = "fired"
    /\ IF pc = "send" /\ httpReq.ctx = "timeout"
       THEN /\ httpRes' = Nil
            /\ res' = Nil
            /\ err' = Wrap("execute HTTP request", NewError("transport", "DeadlineExceeded"))
            /\ httpReq' = Nil
            /\ pc' = "decide"
       ELSE UNCHANGED <<pc, httpReq, httpRes, res, err>>
    /\ UNCHANGED <<config, concurrent, construction,
                   ctxCanceled, attempt, log, history, result>>

\* do(): httpClient.Do fails; do returns (nil, httpRes, err).  The response
\* is nil, except when CheckRedirect failed: then it is the redirect
\* response, its body already closed.
TransmitFails ==
    /\ pc = "send"
    /\ \E cause \in (IF ctxCanceled THEN {"Canceled"} ELSE {"DeadlineExceeded", "Other"}),
          redirect \in BOOLEAN :
          /\ redirect => cause = "Other"
          /\ httpRes' = IF redirect
                        THEN RedirectResponse
                        ELSE Nil
          /\ err' = Wrap("execute HTTP request", NewError("transport", cause))
    /\ res' = Nil
    /\ httpReq' = Nil
    /\ pc' = "decide"
    /\ timer' = "off"
    /\ UNCHANGED <<config, concurrent, construction,
                   ctxCanceled, attempt, log, history, result>>

\* do(): httpClient.Do returns the server's response
TransmitResponds ==
    /\ pc = "send"
    /\ ~ctxCanceled
    /\ \E code \in Statuses :
          httpRes' = HTTPResponse(code)
    /\ httpReq' = Nil
    /\ pc' = "interpret"
    /\ UNCHANGED <<config, concurrent, construction,
                   timer, ctxCanceled, attempt, res, err, log, history, result>>

\* do(): response(), the deferred Body.Close, and do's return
Response ==
    /\ pc = "interpret"
    /\ \E decodeErr \in {Nil, NewError("unmarshal", "Other")}
                        \cup (IF ctxCanceled THEN {NewError("read body", "Canceled")} ELSE {}) :
          LET r == responseOf(httpRes, request, decodeErr)
          IN  /\ unmarshalled' = r.unmarshalled
              /\ IF r.err # Nil
                 THEN /\ res' = Nil
                      /\ err' = Wrap("get response", r.err)
                 ELSE /\ res' = r.res
                      /\ err' = Nil
    /\ httpRes' = CloseBody(httpRes)
    /\ pc' = "decide"
    /\ timer' = "off"
    /\ UNCHANGED <<config, concurrent, construction,
                   ctxCanceled, attempt, httpReq, log, firstStatus, retryCalls, retryArgs,
                   marshalled, mwApplied, result>>

Outcome(e) == IF e = Nil THEN "ok" ELSE IF IsCanceled(e) THEN "canceled" ELSE "failed"

\* the rest of the attempt function, the backoff's reaction to what it
\* returns, and, when the backoff stops, Do's return
Decide ==
    /\ pc = "decide"
    /\ \E wouldReturn \in RetryDecisions(client.retryFunc, RetryArgs(httpRes, err).httpRes,
                                          RetryArgs(httpRes, err).err) :
          LET f == AttemptFunc(err, wouldReturn)
              b == BackoffAfterAttempt(f.ret, attempt, client.maxAttempts)
          IN  /\ retryCalls' = retryCalls + (IF f.asked THEN 1 ELSE 0)
              /\ retryArgs' = IF f.asked THEN RetryArgs(httpRes, err) ELSE Nil
              /\ log' = Append(log, [outcome |-> Outcome(err),
                                     decision |-> IF f.asked THEN wouldReturn ELSE NotAsked])
              /\ IF b.stop
                 THEN /\ pc' = "done"
                      /\ result' = DoReturn(res, b.err)
                 ELSE /\ pc' = "delay"
                      /\ UNCHANGED result
    /\ firstStatus' = IF attempt = 1 /\ httpRes # Nil THEN httpRes.StatusCode ELSE firstStatus
    /\ UNCHANGED <<config, concurrent, construction,
                   timer, ctxCanceled, attempt, httpReq, httpRes, res, err, marshalled,
                   unmarshalled, mwApplied>>

\* variant: the next attempt may start while the retry decision of the
\* current one is still to be taken
DelayElapsed_BeforeDecision ==
    /\ pc \in {"decide", "delay"}
    /\ attempt < client.maxAttempts
    /\ attempt' = attempt + 1
    /\ httpRes' = Nil
    /\ err' = Nil
    /\ marshalled' = FALSE
    /\ unmarshalled' = FALSE
    /\ mwApplied' = <<>>
    /\ retryArgs' = Nil
    /\ pc' = "build"
    /\ UNCHANGED <<config, concurrent, construction,
                   timer, ctxCanceled, httpReq, res, log, firstStatus, retryCalls, result>>

\* the backoff's delay is over: the next attempt starts, with fresh locals
\* httpRes and err in the attempt function.  A wait under a cancelled
\* context does not run to its end (DelayCanceled).
DelayElapsed ==
    /\ pc = "delay"
    /\ ~ctxCanceled
    /\ attempt' = attempt + 1
    /\ httpRes' = Nil
    /\ err' = Nil
    /\ marshalled' = FALSE
    /\ unmarshalled' = FALSE
    /\ mwApplied' = <<>>
    /\ retryArgs' = Nil
    /\ pc' = "build"
    /\ UNCHANGED <<config, concurrent, construction,
                   timer, ctxCanceled, httpReq, res, log, firstStatus, retryCalls, result>>

\* the context is cancelled while the backoff waits: Do returns
DelayCanceled ==
    /\ pc = "delay"
    /\ ctxCanceled
    /\ pc' = "done"
    /\ result' = DoReturn(res, BackoffDelayCanceled)
    /\ UNCHANGED <<config, concurrent, construction,
                   timer, ctxCanceled, attempt, httpReq, httpRes, res, err, log, history>>

\* the caller cancels the context handed to Do
CancelCtx ==
    /\ pc # "done"
    /\ ~ctxCanceled
    /\ ctxCanceled' = TRUE
    /\ UNCHANGED <<config, concurrent, construction,
                   timer, pc, attempt, httpReq, httpRes, res, err, log, history, result>>

Next ==
    \/ Do
    \/ NewHTTPRequest
    \/ RequestTimeoutElapses
    \/ TransmitFails
    \/ TransmitResponds
    \/ Response
    \/ Decide
    \/ DelayElapsed
    \/ DelayCanceled
    \/ CancelCtx

Spec == Init /\ [][Next]_vars

TypeOK ==
    /\ pc \in {"idle", "build", "send", "interpret", "decide", "delay", "done"}
    /\ attempt \in 0..client.maxAttempts
    /\ client.maxAttempts >= 1
    /\ ctxCanceled \in BOOLEAN
    /\ Len(log) <= attempt

(* ------------------------- reading the history ------------------------- *)
Done == pc = "done"
Attempts == Len(log)
Last == log[Len(log)]

\* a retry function's answer that is an error (neither nil nor not asked)
IsDecisionErr(d) == d # Nil /\ d # NotAsked

\* Do returned because the context was cancelled during a delay
EndedInDelay == Done /\ result.err = BackoffDelayCanceled

\* every finished attempt failed, not by cancellation, and the retry
\* function answered nil
AllFailedAndRetried ==
    \A i \in 1..Len(log) : log[i].outcome = "failed" /\ log[i].decision = Nil

\* the retry function answered nil whenever an attempt finished
RetryAlwaysNil == \A i \in 1..Len(log) : log[i].decision = Nil

C2_RetryCount ==
    (Done /\ RetryAlwaysNil /\ ~EndedInDelay) =>
        /\ \A i \in 1..(Attempts - 1) : log[i].outcome = "failed"
        /\ attempt = Attempts
        /\ Last.outcome = "ok" =>
              /\ result.err = Nil
              /\ result.res = res
              /\ res # Nil
              /\ res.StatusCode = httpRes.StatusCode
              /\ res.Status = httpRes.Status
        /\ Last.outcome # "ok" => Attempts = client.maxAttempts

C2_Witness ==
    /\ Done
    /\ client.retryFunc = "alwaysNil"
    /\ client.maxAttempts = DefaultMaxAttempts
    /\ Attempts = 3
    /\ log[1].outcome = "failed"
    /\ log[2].outcome = "failed"
    /\ log[3].outcome = "ok"
    /\ result.err = Nil
    /\ result.res # Nil

\* C3 (abort short-circuit): the first attempt j on which the retry function
\* answers an error e is the last one: Do has returned after exactly j
\* attempts, with a nil Response and an AbortError wrapping exactly e,
\* whether attempt j itself succeeded or failed.
C3_AbortShortCircuit ==
    \A j \in 1..Len(log) :
        IsDecisionErr(log[j].decision) =>
            /\ Done
            /\ j = Attempts
            /\ attempt = j
            /\ result.res = Nil
            /\ IsAbortError(result.err)
            /\ result.err.Err = log[j].decision

\* the retry function aborts on a successful second attempt
C3_Witness ==
    /\ Done
    /\ Attempts = 2
    /\ log[2].outcome = "ok"
    /\ IsDecisionErr(log[2].decision)
    /\ res # Nil
    /\ IsAbortError(result.err)

\* C4 (cancellation precedence): an attempt that fails with the context's
\* cancellation is the last one: the retry function is not invoked for it,
\* whatever it would have answered, and Do has returned a nil Response and
\* an AbortError wrapping that attempt's cancellation error.
C4_CancellationPrecedence ==
    \A j \in 1..Len(log) :
        log[j].outcome = "canceled" =>
            /\ Done
            /\ j = Attempts
            /\ attempt = j
            /\ log[j].decision = NotAsked
            /\ retryCalls = j - 1
            /\ result.res = Nil
            /\ IsAbortError(result.err)
            /\ result.err.Err = err
            /\ IsCanceled(result.err.Err)

C4_Witness ==
    /\ Done
    /\ client.retryFunc = "custom"
    /\ Attempts = 2
    /\ log[2].outcome = "canceled"
    /\ httpRes # Nil
    /\ IsAbortError(result.err)

\* C5 (success is terminal): an attempt that produced a Response without an
\* error, and on which the retry function answered nil, is the last one: Do
\* has returned that attempt's Response with a nil error, whatever its
\* status code.
C5_SuccessTerminal ==
    \A j \in 1..Len(log) :
        (log[j].outcome = "ok" /\ log[j].decision = Nil) =>
            /\ Done
            /\ j = Attempts
            /\ attempt = j
            /\ retryCalls = j
            /\ result = [res |-> res, err |-> Nil]
            /\ result.res = NewResponse(res.Res, httpRes)

\* a decodable 500 answer is returned as the result
C5_Witness ==
    /\ Done
    /\ Last.outcome = "ok"
    /\ Last.decision = Nil
    /\ result.err = Nil
    /\ result.res.StatusCode = StatusInternalServerError
    /\ result.res.Res = "decoded"

C7_ResultExclusive ==
    /\ ~Done => result = Nil
    /\ Done =>
          \/ /\ result.err = Nil
             /\ result.res # Nil
             /\ result.res.StatusCode \in Statuses
             /\ result.res.Status = StatusText(result.res.StatusCode)
             /\ result.res.Res \in {Zero, "decoded"}
             /\ Last.outcome = "ok"
             /\ result.res = res
          \/ /\ result.err # Nil
             /\ result.res = Nil

\* the retry function aborts on an attempt that produced a Response
C7_Witness ==
    /\ Done
    /\ res # Nil
    /\ result.res = Nil
    /\ IsAbortError(result.err)

\* some attempt failed with the context's cancellation
SomeCanceled == \E j \in 1..Len(log) : log[j].outcome = "canceled"
\* the retry function answered an error on some attempt
SomeDecisionErr == \E j \in 1..Len(log) : IsDecisionErr(log[j].decision)
\* maxAttempts attempts were made, the last failed, the answers were all nil
RanOutOfAttempts ==
    /\ Attempts = client.maxAttempts
    /\ Last.outcome = "failed"
    /\ RetryAlwaysNil

\* C8 as stated: MaxAttemptsError exactly when RanOutOfAttempts, AbortError
\* exactly when an attempt was cancelled or the retry function answered an
\* error; never both, and never a plain attempt error.
C8_KindsAsStated ==
    Done =>
        /\ IsMaxAttemptsError(result.err) <=> RanOutOfAttempts
        /\ IsAbortError(result.err) <=> (SomeCanceled \/ SomeDecisionErr)
        /\ ~(IsMaxAttemptsError(result.err) /\ IsAbortError(result.err))
        /\ result.err # Nil => (IsMaxAttemptsError(result.err) \/ IsAbortError(result.err))

\* C8 as amended: AbortError exactly when an attempt was cancelled, the
\* retry function answered an error, or the context was cancelled while Do
\* waited between two attempts; the rest as stated, MaxAttemptsError
\* wrapping the last attempt's error.
C8_TerminalKinds ==
    Done =>
        /\ IsMaxAttemptsError(result.err) <=> (RanOutOfAttempts /\ ~EndedInDelay)
        /\ IsMaxAttemptsError(result.err) => result.err.Err = err
        /\ IsAbortError(result.err) <=> (SomeCanceled \/ SomeDecisionErr \/ EndedInDelay)
        /\ ~(IsMaxAttemptsError(result.err) /\ IsAbortError(result.err))
        /\ result.err # Nil => (IsMaxAttemptsError(result.err) \/ IsAbortError(result.err))

C8_Witness ==
    /\ Done
    /\ EndedInDelay
    /\ ~SomeCanceled
    /\ ~SomeDecisionErr
    /\ IsAbortError(result.err)

\* C9 (default retry policy): with the default retry function the answer is
\* an error exactly when the attempt has a response with status 400 (it is
\* then httpError of its status text), nil otherwise; and when attempt 1 is
\* answered 400, Do has returned after that attempt with a nil Response and
\* an AbortError, whether the body was decoded or not.
C9_DefaultPolicy ==
    client.retryFunc = "default" =>
        /\ (Len(log) > 0 /\ attempt = Attempts /\ Last.decision # NotAsked) =>
              /\ IsDecisionErr(Last.decision)
                    <=> (httpRes # Nil /\ httpRes.StatusCode = StatusBadRequest)
              /\ IsDecisionErr(Last.decision) => Last.decision = httpError(httpRes.Status)
        /\ (Len(log) > 0 /\ firstStatus = StatusBadRequest) =>
              /\ Done
              /\ attempt = 1
              /\ Attempts = 1
              /\ result.res = Nil
              /\ IsAbortError(result.err)

\* a 400 answer whose body was decoded aborts
C9_Witness ==
    /\ client.retryFunc = "default"
    /\ Done
    /\ firstStatus = StatusBadRequest
    /\ Last.outcome = "ok"
    /\ res # Nil
    /\ result.err = AbortError(httpError(StatusText(StatusBadRequest)))

\* C10 as stated: with the default policy and maxAttempts >= 2, whatever
\* the Request, a 500 answer on attempt 1 is retried and never returned: Do
\* does not return after attempt 1 (calls whose context was cancelled aside).
C10_Always500Retried ==
    (/\ client.retryFunc = "default"
     /\ client.maxAttempts >= 2
     /\ Done
     /\ ~ctxCanceled
     /\ firstStatus = StatusInternalServerError) => Attempts >= 2

\* C10 as amended: with the default policy and maxAttempts >= 2, when
\* attempt 1 fails on a 500 answer (its body does not decode), a second
\* attempt is made unless Do is cancelled while waiting, and when that one
\* is answered 204 Do returns after exactly 2 attempts a Response with the
\* zero payload and status 204.
C10_Failed500Retried ==
    (/\ client.retryFunc = "default"
     /\ client.maxAttempts >= 2
     /\ Len(log) > 0
     /\ firstStatus = StatusInternalServerError
     /\ log[1].outcome = "failed") =>
        /\ Done => (Attempts >= 2 \/ EndedInDelay)
        /\ (Attempts = 2 /\ attempt = 2 /\ httpRes # Nil
                /\ httpRes.StatusCode = StatusNoContent) =>
              /\ Done
              /\ unmarshalled = FALSE
              /\ result = [res |-> [Res |-> Zero, StatusCode |-> StatusNoContent,
                                    Status |-> StatusText(StatusNoContent)],
                           err |-> Nil]

C10_Witness ==
    /\ client.retryFunc = "default"
    /\ Done
    /\ firstStatus = StatusInternalServerError
    /\ log[1].outcome = "failed"
    /\ Attempts = 2
    /\ result.err = Nil
    /\ result.res.StatusCode = StatusNoContent

(* --------------------- interpreting the response ----------------------- *)
\* the current attempt got a response and interpreted it
\* (a failed transmission may leave a response too: the redirect one)
Interpreted ==
    /\ pc \in {"decide", "delay", "done"}
    /\ httpRes # Nil
    /\ err = Nil \/ err.msg = "get response"

\* C11: whatever the Request (either revision, any Res type, flag set or
\* not), a response with status 204 is interpreted without the unmarshal
\* function, without error, as a Response with the zero payload and the
\* status code and text of the HTTP response.
C11_NoContent ==
    (Interpreted /\ httpRes.StatusCode = StatusNoContent) =>
        /\ unmarshalled = FALSE
        /\ err = Nil
        /\ res = [Res |-> Zero, StatusCode |-> StatusNoContent,
                  Status |-> StatusText(StatusNoContent)]

C11_Witness ==
    /\ Interpreted
    /\ httpRes.StatusCode = StatusNoContent
    /\ request.rev = "client.go"
    /\ request.resType = "Data"
    /\ res # Nil

NoBodyMarker == request.req \in {"nil", "Void", "PtrVoid"}

\* C13: for a Request whose data is the no-body marker (nil, Void by value
\* or by pointer), no attempt invokes the marshal function and every HTTP
\* request built carries the empty body.
C13_NoBodyNotMarshalled ==
    NoBodyMarker =>
        /\ marshalled = FALSE
        /\ pc = "send" => httpReq.body = "NoBody"

\* what the code does: the same, except for nil data in the client.go revision
C13_ExceptNilInClientGo ==
    (NoBodyMarker /\ ~(request.rev = "client.go" /\ request.req = "nil")) =>
        /\ marshalled = FALSE
        /\ pc = "send" => httpReq.body = "NoBody"

C13_NilMarshalled ==
    /\ request.rev = "client.go"
    /\ request.req = "nil"
    /\ pc = "send"
    /\ marshalled
    /\ httpReq.body = "buffer"

\* C14: when the Res type is the no-body marker, Void or *Void, no response
\* of any status is handed to the unmarshal function, and its interpretation
\* yields the Response with the zero payload and no error.
C14_VoidResNotDecoded ==
    (request.rev = "client.go" /\ request.resType \in {"Void", "PtrVoid"}) =>
        /\ unmarshalled = FALSE
        /\ Interpreted =>
              /\ err = Nil
              /\ res = [Res |-> Zero, StatusCode |-> httpRes.StatusCode,
                        Status |-> httpRes.Status]

\* what the code does: the same for *Void only
C14_PtrVoidResNotDecoded ==
    (request.rev = "client.go" /\ request.resType = "PtrVoid") =>
        /\ unmarshalled = FALSE
        /\ Interpreted =>
              /\ err = Nil
              /\ res = [Res |-> Zero, StatusCode |-> httpRes.StatusCode,
                        Status |-> httpRes.Status]

\* Res is Void, and the attempt fails because the body does not decode
C14_VoidDecoded ==
    /\ request.rev = "client.go"
    /\ request.resType = "Void"
    /\ Interpreted
    /\ httpRes.StatusCode = StatusOK
    /\ unmarshalled
    /\ err # Nil

(* ------------------------ concurrent calls of Do ------------------------ *)
\* Several goroutines call Do on the same Client and Request.  Each call
\* runs the steps of the single call above, coarser: a whole do() is one
\* step, the rest of the attempt function up to Do's return the next.  Do
\* and do assign no field of the Client or the Request; the only variable
\* the attempt function shares with its surroundings is Do's local res.

\* number of concurrent calls
NumCalls == 2
CallIds == 1..NumCalls

\* what the environment does to a concurrent call's attempts
ConcTransmitErrs == {Nil, NewError("transport", "Other")}
ConcAnswers == {StatusOK, StatusNoContent}
ConcDecodeErrs == {Nil, NewError("unmarshal", "Other")}

\* variant: res is one variable shared by all calls
ResCell_Shared(c) == 1

\* the storage of the variable res of call c: declared inside Do, so every
\* call has its own
ResCell(c) == c

IdleCall == [pc |-> "idle", attempt |-> 0, httpRes |-> Nil, err |-> Nil, result |-> Nil]

ConcInit ==
    /\ \E n \in 1..MaxAttemptsOpt, retry \in RetryFuncs :
          client \in {New(<<WithMaxAttempts(n)>>), New(<<WithMaxAttempts(n), WithRetry(retry)>>)}
    /\ request \in {NewRequest("GET", "Data", "Data"), NewRequest("GET", "Void", "PtrVoid"),
                     NewRequest_README("GET", "nil", <<>>)}
    /\ calls = [c \in CallIds |-> IdleCall]
    /\ resCells = [c \in CallIds |-> Nil]
    /\ ctxCanceled = FALSE
    /\ pc = "idle"
    /\ attempt = 0
    /\ httpReq = Nil
    /\ httpRes = Nil
    /\ res = Nil
    /\ err = Nil
    /\ log = <<>>
    /\ firstStatus = 0
    /\ retryCalls = 0
    /\ marshalled = FALSE
    /\ unmarshalled = FALSE
    /\ mwApplied = <<>>
    /\ retryArgs = Nil
    /\ result = Nil
    /\ timer = "off"
    /\ optCalls = <<>>
    /\ newPc = "built"

single == <<ctxCanceled, pc, attempt, httpReq, httpRes, res, err, log, history, result, timer,
            optCalls, newPc>>

\* call c enters Do: the backoff starts its attempt 1
CallDo(c) ==
    /\ calls[c].pc = "idle"
    /\ calls' = [calls EXCEPT ![c] = [@ EXCEPT !.pc = "attempt", !.attempt = 1]]
    /\ UNCHANGED <<config, single, resCells>>

\* call c runs do(): res, httpRes, err = do(ctx, req)
CallAttempt(c) ==
    /\ calls[c].pc = "attempt"
    /\ \E transmitErr \in ConcTransmitErrs, answer \in ConcAnswers,
          decodeErr \in ConcDecodeErrs :
          LET r == do(client, request, Nil, 0, transmitErr, answer, decodeErr)
          IN  /\ resCells' = [resCells EXCEPT ![ResCell(c)] = r.res]
              /\ calls' = [calls EXCEPT ![c] = [@ EXCEPT !.pc = "decide",
                                                         !.httpRes = r.httpRes,
                                                         !.err = r.err]]
    /\ UNCHANGED <<config, single>>

\* call c finishes the attempt function; the backoff stops or delays; when
\* it stops, Do returns, reading res
CallDecide(c) ==
    /\ calls[c].pc = "decide"
    /\ \E wouldReturn \in RetryDecisions(client.retryFunc, calls[c].httpRes, calls[c].err) :
          LET f == AttemptFunc(calls[c].err, wouldReturn)
              b == BackoffAfterAttempt(f.ret, calls[c].attempt, client.maxAttempts)
          IN  calls' = [calls EXCEPT ![c] =
                           IF b.stop
                           THEN [@ EXCEPT !.pc = "done",
                                          !.result = DoReturn(resCells[ResCell(c)], b.err)]
                           ELSE [@ EXCEPT !.pc = "delay"]]
    /\ UNCHANGED <<config, single, resCells>>

\* call c's delay is over: its next attempt starts
CallDelayElapsed(c) ==
    /\ calls[c].pc = "delay"
    /\ calls' = [calls EXCEPT ![c] = [@ EXCEPT !.pc = "attempt", !.attempt = @ + 1,
                                               !.httpRes = Nil, !.err = Nil]]
    /\ UNCHANGED <<config, single, resCells>>

ConcNext ==
    \E c \in CallIds :
        \/ CallDo(c)
        \/ CallAttempt(c)
        \/ CallDecide(c)
        \/ CallDelayElapsed(c)

ConcSpec == ConcInit /\ [][ConcNext]_vars

\* what call c returned follows from its own last attempt alone
OwnResult(c) ==
    LET k == calls[c]
    IN  k.pc = "done" =>
          /\ k.attempt \in 1..client.maxAttempts
          /\ k.result.err = Nil =>
                /\ k.err = Nil
                /\ k.result.res = responseOf(k.httpRes, request, Nil).res
          /\ k.result.err # Nil => k.result.res = Nil
          /\ IsMaxAttemptsError(k.result.err) =>
                /\ k.attempt = client.maxAttempts
                /\ k.result.err.Err = k.err
          /\ (k.err # Nil /\ k.attempt < client.maxAttempts) => IsAbortError(k.result.err)

\* a step is a step of one call: the locals of every other call stay as they are
OneCallSteps ==
    \A c, d \in CallIds : (c # d /\ calls'[c] # calls[c]) => calls'[d] = calls[d]

\* C15: under every interleaving of concurrent Do calls on one Client and
\* one Request, no step changes a field of the Client or the Request, every
\* step touches the locals of one call only, and what a call returns, and
\* after how many attempts, follows from the outcomes of its own attempts.
C15_ConcurrentCalls ==
    /\ [](\A c \in CallIds : OwnResult(c))
    /\ [][UNCHANGED config /\ OneCallSteps]_vars

\* two calls interleaved: call 1 failed once and then got 200 while call 2
\* got 204 at once, and each returned its own response
C15_Witness ==
    /\ calls[1].pc = "done"
    /\ calls[2].pc = "done"
    /\ calls[1].attempt = 2
    /\ calls[2].attempt = 1
    /\ calls[1].result.err = Nil
    /\ calls[2].result.err = Nil
    /\ calls[1].result.res.StatusCode = StatusOK
    /\ calls[2].result.res.StatusCode = StatusNoContent

(* -------------------------- order of attempts --------------------------- *)
\* C16: within one Do call the attempt number only ever grows by one, so
\* attempts are numbered 1, 2, ... without gap or repetition; a new attempt
\* starts only when every earlier attempt has returned and had its retry
\* decision taken (all are in the log) and the call is at its start or in
\* the delay; and never is more than one attempt unfinished.
C16_SequentialAttempts ==
    [][/\ attempt' \in {attempt, attempt + 1}
       /\ attempt' = attempt + 1 => (pc \in {"idle", "delay"} /\ Len(log) = attempt)
       /\ attempt' - Len(log') \in {0, 1}]_vars

C16_Witness ==
    /\ attempt = 3
    /\ pc = "send"
    /\ Len(log) = 2
    /\ log[1].outcome = "failed"
    /\ log[2].outcome = "failed"

(* ------------------------- the attempt's timeout ------------------------ *)
\* C17: the transmission of an attempt is bounded by the attempt's timeout:
\* once the timeout has elapsed no transmission of that attempt is still in
\* flight, whether or not the caller's context is ever cancelled.
C17_TimeoutBoundsTransmission == ~(pc = "send" /\ timer = "fired")

\* the timeout elapsed, the caller did not cancel, and the attempt still
\* waits for the transport
C17_StillInFlight ==
    /\ pc = "send"
    /\ timer = "fired"
    /\ ~ctxCanceled
    /\ httpReq.ctx = "attempt"

(* -------------------------- building a Client --------------------------- *)
\* A caller evaluates option constructors, any arguments, and hands the
\* options to New.  A constructor that panics ends the construction.

\* longest option list of a construction
MaxNewOpts == 3

\* the constructor calls a caller may write
OptCalls ==
    {[ctor |-> "WithMaxAttempts", arg |-> n] : n \in -1..MaxAttemptsOpt}
    \cup {[ctor |-> "WithRetry", arg |-> f] : f \in RetryFuncs \cup {NilFunc}}
    \cup {[ctor |-> "WithRequestMiddleware", arg |-> m] : m \in 1..NumMiddlewares}

\* what a constructor call evaluates to: an option, or a panic
EvalOptCall(c) ==
    CASE c.ctor = "WithMaxAttempts" -> WithMaxAttempts(c.arg)
      [] c.ctor = "WithRetry" -> WithRetry(c.arg)
      [] c.ctor = "WithRequestMiddleware" -> WithRequestMiddleware(c.arg)

NewInit ==
    /\ client = Nil
    /\ request = Nil
    /\ optCalls = <<>>
    /\ newPc = "options"
    /\ calls = <<>>
    /\ resCells = <<>>
    /\ ctxCanceled = FALSE
    /\ pc = "idle"
    /\ attempt = 0
    /\ httpReq = Nil
    /\ httpRes = Nil
    /\ res = Nil
    /\ err = Nil
    /\ log = <<>>
    /\ firstStatus = 0
    /\ retryCalls = 0
    /\ marshalled = FALSE
    /\ unmarshalled = FALSE
    /\ mwApplied = <<>>
    /\ retryArgs = Nil
    /\ result = Nil
    /\ timer = "off"

call == <<request, ctxCanceled, pc, attempt, httpReq, httpRes, res, err, log, history, result,
          timer, concurrent>>

\* the caller evaluates one more option constructor
CallOptionConstructor ==
    /\ newPc = "options"
    /\ Len(optCalls) < MaxNewOpts
    /\ \E c \in OptCalls :
          /\ optCalls' = Append(optCalls, c)
          /\ newPc' = IF IsPanic(EvalOptCall(c)) THEN "panicked" ELSE "options"
    /\ UNCHANGED <<client, call>>

\* the caller hands the options to New
CallNew ==
    /\ newPc = "options"
    /\ client' = New([i \in 1..Len(optCalls) |-> EvalOptCall(optCalls[i])])
    /\ newPc' = "built"
    /\ UNCHANGED <<optCalls, call>>

NewNext ==
    \/ CallOptionConstructor
    \/ CallNew

NewSpec == NewInit /\ [][NewNext]_vars

\* the constructor call is one that the code rejects
InvalidOptCall(c) ==
    \/ c.ctor = "WithMaxAttempts" /\ c.arg < 1
    \/ c.ctor = "WithRetry" /\ c.arg = NilFunc

\* C18: a construction in which WithMaxAttempts was called with max < 1 or
\* WithRetry with nil has panicked and yields no Client; every Client that
\* New returns has maxAttempts >= 1, 5 when WithMaxAttempts was not among
\* the options, and a retry function that is not nil.
C18_ConstructionValidated ==
    /\ (\E i \in 1..Len(optCalls) : InvalidOptCall(optCalls[i])) =>
          (newPc = "panicked" /\ client = Nil)
    /\ newPc = "panicked" => client = Nil
    /\ client # Nil =>
          /\ newPc = "built"
          /\ client.maxAttempts >= 1
          /\ client.retryFunc # NilFunc
          /\ (\A i \in 1..Len(optCalls) : optCalls[i].ctor # "WithMaxAttempts") =>
                client.maxAttempts = DefaultMaxAttempts

\* a Client built without WithMaxAttempts
C18_Witness ==
    /\ newPc = "built"
    /\ Len(optCalls) = 2
    /\ \A i \in 1..Len(optCalls) : optCalls[i].ctor # "WithMaxAttempts"
    /\ client.maxAttempts = DefaultMaxAttempts

\* a construction that panicked on WithMaxAttempts(0)
C18_PanicWitness ==
    /\ newPc = "panicked"
    /\ optCalls[Len(optCalls)] = [ctor |-> "WithMaxAttempts", arg |-> 0]
    /\ client = Nil

(* --------------------- cancellation between attempts -------------------- *)
\* C19: when the caller's context is cancelled while Do waits between two
\* attempts, the only thing Do does next is return: no further attempt is
\* started or logged, and the result is no Response and the abort that
\* carries the cancellation, not the attempt's error and not the
\* attempts-exhausted error.
C19_CanceledWhileWaiting ==
    [][(pc = "delay" /\ ctxCanceled) =>
          /\ pc' = "done"
          /\ attempt' = attempt
          /\ log' = log
          /\ result'.res = Nil
          /\ IsAbortError(result'.err)
          /\ IsCanceled(result'.err.Err)
          /\ result'.err.Err # err]_vars

C19_Witness ==
    /\ EndedInDelay
    /\ Attempts = 1
    /\ attempt = 1
    /\ log[1].outcome = "failed"
    /\ log[1].decision = Nil
    /\ client.maxAttempts >= 2

(* --------------------------- failure routing ---------------------------- *)
\* how the current attempt failed, from the outermost message of its error
FailureKinds == {"new HTTP request", "execute HTTP request", "get response"}

\* C20: the step that ends an attempt which failed for another reason than
\* cancellation (request not built: encode or middleware failure; not
\* transmitted; response not decoded) invokes the retry function once, with
\* that attempt's response and its non-nil error, and records its answer;
\* the Do call neither ends nor goes on to a retry in any other step, so no
\* such failure is passed over.
C20_FailuresRouted ==
    [][/\ (pc = "decide" /\ pc' # "decide" /\ err # Nil /\ ~IsCanceled(err)) =>
             /\ err.msg \in FailureKinds
             /\ retryCalls' = retryCalls + 1
             /\ retryArgs' = [httpRes |-> httpRes, err |-> err]
             /\ retryArgs'.err # Nil
             /\ Len(log') = Len(log) + 1
             /\ log'[Len(log')].outcome = "failed"
             /\ log'[Len(log')].decision # NotAsked
             /\ pc' \in {"delay", "done"}
       /\ (pc \in {"build", "send", "interpret"} /\ pc' \in {"delay", "done"}) => FALSE
       /\ pc # "decide" => retryCalls' = retryCalls]_vars

\* a Do call whose attempts failed in three ways, each handed to the retry
\* function
C20_Witness ==
    /\ Len(log) = 3
    /\ retryCalls = 3
    /\ \A i \in 1..3 : log[i].outcome = "failed" /\ log[i].decision = Nil
    /\ retryArgs # Nil
    /\ retryArgs.err.msg = "get response"
    /\ marshalled
    /\ mwApplied # <<>>

(* ----------------- what the retry function is handed ------------------- *)
\* the retry function was invoked in the current attempt, which ...
AskedAfterSuccess == retryArgs # Nil /\ retryArgs.err = Nil
AskedAfterBuildFailure == retryArgs # Nil /\ retryArgs.err # Nil
                             /\ retryArgs.err.msg = "new HTTP request"
AskedAfterTransmitFailure == retryArgs # Nil /\ retryArgs.err # Nil
                                /\ retryArgs.err.msg = "execute HTTP request"
AskedAfterDecodeFailure == retryArgs # Nil /\ retryArgs.err # Nil
                              /\ retryArgs.err.msg = "get response"

\* C21 as stated: the retry function is handed the response and the error
\* after a decode failure, a nil response and the error after a build or a
\* transport failure, the response and a nil error after a success.
C21_ClassificationAsStated ==
    /\ AskedAfterDecodeFailure => retryArgs.httpRes # Nil
    /\ AskedAfterBuildFailure => retryArgs.httpRes = Nil
    /\ AskedAfterTransmitFailure => retryArgs.httpRes = Nil
    /\ AskedAfterSuccess => retryArgs.httpRes # Nil

\* C21 as amended: the same, except that after a transport failure the
\* retry function is handed what httpClient.Do returned next to its error:
\* nil, or the redirect response, body closed, when following a redirect
\* failed.  What it is handed is the attempt's own response and error.
C21_Classification ==
    /\ AskedAfterDecodeFailure => (retryArgs.httpRes # Nil /\ ~retryArgs.httpRes.bodyOpen)
    /\ AskedAfterBuildFailure => retryArgs.httpRes = Nil
    /\ AskedAfterTransmitFailure =>
          \/ retryArgs.httpRes = Nil
          \/ /\ retryArgs.httpRes.StatusCode = StatusFound
             /\ ~retryArgs.httpRes.bodyOpen
    /\ AskedAfterSuccess => (retryArgs.httpRes # Nil /\ ~retryArgs.httpRes.bodyOpen)
    /\ retryArgs # Nil => (retryArgs.httpRes = httpRes /\ retryArgs.err = err)

\* the retry function sees status 500 next to the decode failure
C21_Witness ==
    /\ AskedAfterDecodeFailure
    /\ retryArgs.httpRes.StatusCode = StatusInternalServerError
    /\ unmarshalled

(* --------------------------- middleware chain --------------------------- *)
\* C22: in every attempt the middlewares invoked are the Client's, from the
\* first on in registration order, each on a request that already carries
\* the default Content-Type and Accept headers; a request is transmitted
\* only after all of them ran without error; and when one returns an error,
\* none after it is invoked, nothing is transmitted (no request, no
\* response, the timeout never started) and the attempt ends as a failed one.
C22_MiddlewareChain ==
    LET mws == client.requestMiddlewares
    IN  /\ Len(mwApplied) <= Len(mws)
        /\ \A i \in 1..Len(mwApplied) :
              /\ mwApplied[i].fun = mws[i]
              /\ mwApplied[i].header = DefaultHeader
              /\ mwApplied[i].err # Nil =>
                    /\ i = Len(mwApplied)
                    /\ pc \in {"decide", "delay", "done"}
                    /\ httpReq = Nil
                    /\ httpRes = Nil
                    /\ timer = "off"
                    /\ res = Nil
                    /\ err # Nil
                    /\ err.msg = "new HTTP request"
                    /\ Len(log) = attempt => log[attempt].outcome = "failed"
        /\ pc \in {"send", "interpret"} =>
              /\ Len(mwApplied) = Len(mws)
              /\ \A i \in 1..Len(mwApplied) : mwApplied[i].err = Nil

\* attempt 2, two different middlewares registered: the first one failed,
\* the second was not invoked, the attempt is logged as failed
C22_Witness ==
    /\ Len(client.requestMiddlewares) = 2
    /\ client.requestMiddlewares[1] # client.requestMiddlewares[2]
    /\ attempt = 2
    /\ Len(log) = 2
    /\ Len(mwApplied) = 1
    /\ mwApplied[1].err # Nil
    /\ log[2].outcome = "failed"

\* attempt 2 transmits after both middlewares ran, in registration order
C22_WitnessAllApplied ==
    /\ Len(client.requestMiddlewares) = 2
    /\ client.requestMiddlewares[1] # client.requestMiddlewares[2]
    /\ attempt = 2
    /\ pc = "send"
    /\ Len(mwApplied) = 2

(* ------------------------- response body release ------------------------ *)
\* the current attempt has returned from do()
AttemptReturned == pc \in {"decide", "delay", "done"}

\* C23: the body of a response is never closed twice; once the attempt that
\* received it has returned, on whichever path (204, body ignored, decoded,
\* not decoded), it has been closed exactly once; a response is let go of
\* (the next attempt starts) only with its body closed; and when Do has
\* returned no body is open.
C23_BodyReleased ==
    /\ [](httpRes # Nil =>
             /\ httpRes.closes <= 1
             /\ httpRes.bodyOpen <=> httpRes.closes = 0
             /\ AttemptReturned => (httpRes.closes = 1 /\ ~httpRes.bodyOpen))
    /\ [][(httpRes # Nil /\ httpRes' # httpRes /\ httpRes.bodyOpen) =>
             (httpRes' = CloseBody(httpRes) /\ AttemptReturned')]_vars

\* Do returned after two attempts that each received a response and failed
\* to decode it
C23_Witness ==
    /\ Done
    /\ Attempts = 2
    /\ firstStatus = StatusInternalServerError
    /\ httpRes # Nil
    /\ httpRes.closes = 1
    /\ unmarshalled
    /\ err # Nil
    /\ err.msg = "get response"

\* other exit paths: 204, and the body ignored
C23_WitnessNoContent ==
    Done /\ httpRes # Nil /\ httpRes.StatusCode = StatusNoContent /\ httpRes.closes = 1

C23_WitnessIgnored ==
    /\ Done
    /\ request.rev = "README.md"
    /\ request.ignoreResponseBody
    /\ httpRes # Nil
    /\ httpRes.StatusCode = StatusOK
    /\ httpRes.closes = 1

(* ------------------------------ termination ----------------------------- *)
\* The single call under the proviso that whatever was begun finishes: the
\* call is made, building, transmitting and interpreting end, the attempt
\* function returns, and the backoff's wait ends (by its timer or by the
\* context).  Nothing obliges the caller to cancel or the timeout to elapse.
Fairness ==
    /\ WF_vars(Do)
    /\ WF_vars(NewHTTPRequest)
    /\ WF_vars(TransmitFails \/ TransmitResponds)
    /\ WF_vars(Response)
    /\ WF_vars(Decide)
    /\ WF_vars(DelayElapsed \/ DelayCanceled)

FairSpec == Spec /\ Fairness

\* how a Do call ended
Success == Done /\ result.err = Nil /\ result.res # Nil
Abort == Done /\ IsAbortError(result.err) /\ result.res = Nil
Exhausted == Done /\ IsMaxAttemptsError(result.err) /\ result.res = Nil

\* C24: every Do call ends; when it has, it is in exactly one of Success,
\* Abort and Exhausted and made between 1 and maxAttempts attempts; and in
\* no state has the call begun or finished more than maxAttempts attempts.
C24_Termination ==
    /\ <>Done
    /\ [](Done => /\ Success \/ Abort \/ Exhausted
                  /\ ~(Success /\ Abort)
                  /\ ~(Success /\ Exhausted)
                  /\ ~(Abort /\ Exhausted)
                  /\ Attempts \in 1..client.maxAttempts
                  /\ attempt = Attempts)
    /\ [](attempt <= client.maxAttempts /\ Attempts <= client.maxAttempts)

\* a call that used up all of its five attempts
C24_Witness ==
    /\ Exhausted
    /\ client.maxAttempts = DefaultMaxAttempts
    /\ Attempts = DefaultMaxAttempts
    /\ ~ctxCanceled

(* ------------------- invocations of the retry function ------------------ *)
\* attempts of the log whose retry decision was asked for
AskedAttempts == {i \in 1..Len(log) : log[i].decision # NotAsked}
CanceledAttempts == {i \in 1..Len(log) : log[i].outcome = "canceled"}

\* C25: the retry function is invoked in an attempt exactly when the attempt
\* did not end in cancellation, successful and last attempts included, one
\* invocation per step that ends an attempt, and with the attempt's response
\* body closed; a cancelled attempt is the last one; so the invocations
\* number the attempts less the at most one cancelled attempt.
C25_RetryFuncOncePerAttempt ==
    /\ [](/\ AskedAttempts = (1..Len(log)) \ CanceledAttempts
          /\ retryCalls = Cardinality(AskedAttempts)
          /\ Cardinality(CanceledAttempts) <= 1
          /\ CanceledAttempts \subseteq {Len(log)}
          /\ retryCalls = Len(log) - Cardinality(CanceledAttempts)
          /\ (retryArgs # Nil /\ retryArgs.httpRes # Nil) =>
                (~retryArgs.httpRes.bodyOpen /\ retryArgs.httpRes.closes = 1))
    /\ [][/\ retryCalls' \in {retryCalls, retryCalls + 1}
          /\ retryCalls' = retryCalls + 1 => Len(log') = Len(log) + 1]_vars

\* two failed attempts and a cancelled third: two invocations
C25_Witness ==
    /\ Done
    /\ Attempts = 3
    /\ log[3].outcome = "canceled"
    /\ retryCalls = 2

\* the retry function is asked after the last attempt and after a success
C25_WitnessLastAttempt ==
    Exhausted /\ client.maxAttempts = 2 /\ retryCalls = 2

C25_WitnessSuccess ==
    Success /\ Attempts = 2 /\ retryCalls = 2 /\ retryArgs.err = Nil

(* --------------------------- expired deadlines -------------------------- *)
\* the current attempt failed on an expired deadline:
\* errors.Is(err, context.DeadlineExceeded)
DeadlineFailure == err # Nil /\ err.cause = "DeadlineExceeded"

====
